---- MODULE Spec2Model ----
(***************************************************************************)
(* Model of the diff parser of drone-ai-pr-reviewer:                       *)
(*   parse_diff_text          (diff_parser.py)                             *)
(*   filter_files_by_patterns (utils/file_filter.py)                       *)
(*   DiffChunk / DiffFile     (models.py)                                  *)
(*   the position lookup of post_review_comments (scm_client.py)           *)
(*                                                                         *)
(* Strings are sequences of one-character strings, so that startswith,     *)
(* split and slicing are computed as Python computes them.  An optional    *)
(* value is a sequence of length at most one: None is <<>>, a present      *)
(* value x is <<x>>.  Every variable is a function of the invocation, so   *)
(* that several invocations of parse_diff_text can be in progress.         *)
(***************************************************************************)
EXTENDS Integers, Sequences, FiniteSets, TLC

VARIABLES
    diff_text,          \* [call -> the lines of diff_text.splitlines() the loop has
                        \*          consumed; the whole text once the call is done]
    include_patterns,   \* [call -> optional list of patterns]
    exclude_patterns,   \* [call -> optional list of patterns]
    pc,                 \* [call -> "loop" | "done" | "raised"]
    result,             \* [call -> list of DiffFile]
    current_file,       \* [call -> optional DiffFile]
    current_chunk,      \* [call -> optional DiffChunk]
    current_hunk_line,  \* [call -> int]
    current_diff_line,  \* [call -> int]
    filter_files,       \* [call -> the paths given to filter_files_by_patterns]
    filter_result,      \* [call -> optional list of paths it returned]
    comment,            \* [call -> optional ReviewComment being posted]
    review_comments_payload,  \* [call -> list of [path, line] to post]
    review,             \* [call -> "direct" when parse_diff_text is called directly,
                        \*          else the position of review_pr: "get_diff" |
                        \*          "no_diff_text" | "parsing" | "no_files" | "reviewing",
                        \*          or of post_review_comments: "diff_files_set" |
                        \*          "diff_files_unset" | "post_raised"]
    diff_chunk_content, \* [call -> optional hunk given to the reviewer with its
                        \*          rendered text]
    comments            \* [call -> the comments the loop of post_review_comments
                        \*          has taken]

\* what lives outside parse_diff_text
review_vars == <<diff_chunk_content, comments>>

other_vars == <<filter_files, filter_result, comment, review_comments_payload, review,
                review_vars>>

vars == <<diff_text, include_patterns, exclude_patterns, pc, result,
          current_file, current_chunk, current_hunk_line, current_diff_line,
          other_vars>>

----------------------------------------------------------------------------
(* Optional values and Python truthiness *)

None == <<>>

Some(x) == <<x>>

IsNone(o) == o = <<>>

Val(o) == o[1]

----------------------------------------------------------------------------
(* Strings *)

NL == "\n"

StartsWith(s, p) == Len(s) >= Len(p) /\ SubSeq(s, 1, Len(p)) = p

\* s[1:]
Tail1(s) == SubSeq(s, 2, Len(s))

\* first index at which sep occurs in s, 0 when it does not occur
FindStr(s, sep) ==
    LET hits == {i \in 1..(Len(s) - Len(sep) + 1) : SubSeq(s, i, i + Len(sep) - 1) = sep}
    IN  IF hits = {} THEN 0 ELSE CHOOSE i \in hits : \A j \in hits : i <= j

\* s.split(sep) for a non-empty separator
RECURSIVE StrSplit(_, _)
StrSplit(s, sep) ==
    LET i == FindStr(s, sep)
    IN  IF i = 0 THEN <<s>>
        ELSE <<SubSeq(s, 1, i - 1)>> \o StrSplit(SubSeq(s, i + Len(sep), Len(s)), sep)

IsWs(ch) == ch \in {" ", "\t"}

\* s.split(): the maximal runs of non-whitespace characters
RECURSIVE SplitWs(_)
SplitWs(s) ==
    IF s = <<>> THEN <<>>
    ELSE IF IsWs(s[1]) THEN SplitWs(Tail1(s))
    ELSE LET stops == {i \in 1..Len(s) : IsWs(s[i])}
             e == IF stops = {} THEN Len(s) + 1
                  ELSE CHOOSE i \in stops : \A j \in stops : i <= j
         IN  <<SubSeq(s, 1, e - 1)>> \o SplitWs(SubSeq(s, e, Len(s)))

\* seq[lo:hi] of Python, 0-based and half open, clipped to the sequence
Slice(seq, lo, hi) ==
    LET h == IF hi < Len(seq) THEN hi ELSE Len(seq)
    IN  SubSeq(seq, lo + 1, h)

\* str(n) of a natural number: its decimal digits
Digits == <<"0", "1", "2", "3", "4", "5", "6", "7", "8", "9">>

RECURSIVE IntToStr(_)
IntToStr(n) ==
    IF n < 10 THEN <<Digits[n + 1]>>
    ELSE IntToStr(n \div 10) \o <<Digits[(n % 10) + 1]>>

\* sep.join(parts) for a separator of one character
RECURSIVE StrJoin(_, _)
StrJoin(parts, sep) ==
    IF parts = <<>> THEN <<>>
    ELSE IF Len(parts) = 1 THEN parts[1]
    ELSE parts[1] \o <<sep>> \o StrJoin(Tail(parts), sep)

\* str.isspace(): non-empty and only whitespace
IsSpace(s) == s # <<>> /\ \A i \in 1..Len(s) : IsWs(s[i])

----------------------------------------------------------------------------
(* utils/file_filter.py *)

Truthy(opt_list) == ~IsNone(opt_list) /\ Val(opt_list) # <<>>

\* One pattern segment against one path segment: "*" is any non-empty
\* segment, any other pattern segment is a literal.
SegGlob(p, seg) == IF p = <<"*">> THEN seg # <<>> ELSE p = seg

\* Pattern segments against path segments, anchored at the first segment.
\* A leading or inner "**" spans zero or more segments, a trailing "**"
\* one or more; a pattern that matches a parent directory matches the path.
RECURSIVE MatchSegs(_, _)
MatchSegs(ps, xs) ==
    IF ps = <<>> THEN TRUE
    ELSE IF ps[1] = <<"*", "*">>
         THEN IF Len(ps) = 1 THEN xs # <<>>
              ELSE MatchSegs(Tail(ps), xs) \/ (xs # <<>> /\ MatchSegs(ps, Tail(xs)))
         ELSE xs # <<>> /\ SegGlob(ps[1], xs[1]) /\ MatchSegs(Tail(ps), Tail(xs))

\* GitWildMatchPattern: a pattern without "/" matches at any depth
GitWildMatch(pattern, path) ==
    LET ps == StrSplit(pattern, <<"/">>)
        xs == StrSplit(path, <<"/">>)
    IN  IF Len(ps) = 1 THEN MatchSegs(<<(<<"*", "*">>)>> \o ps, xs)
        ELSE MatchSegs(ps, xs)

\* PathSpec.match_file: some pattern of the spec matches
match_file(patterns, f) ==
    \E k \in 1..Len(patterns) : GitWildMatch(patterns[k], f)

\* filter_files_by_patterns without its second pass
filter_files_by_patterns_NoExclude(files, include, exclude) ==
    IF files = <<>> THEN <<>>
    ELSE IF Truthy(include)
         THEN SelectSeq(files, LAMBDA f : match_file(Val(include), f))
         ELSE files

\* filter_files_by_patterns that returns each path once
filter_files_by_patterns_Dedup(files, include, exclude) ==
    LET keep(f) == /\ Truthy(include) => match_file(Val(include), f)
                   /\ Truthy(exclude) => ~match_file(Val(exclude), f)
    IN  SelectSeq([i \in 1..Len(files) |->
                      IF \E j \in 1..(i - 1) : files[j] = files[i] THEN <<>> ELSE files[i]],
                  LAMBDA f : f # <<>> /\ keep(f))

\* filter_files_by_patterns for which an empty include list is a list of
\* patterns that match nothing
filter_files_by_patterns_EmptyMatchesNone(files, include, exclude) ==
    IF files = <<>> THEN <<>>
    ELSE LET included_files ==
                 IF ~IsNone(include)
                 THEN SelectSeq(files, LAMBDA f : match_file(Val(include), f))
                 ELSE files
         IN  IF Truthy(exclude)
             THEN SelectSeq(included_files, LAMBDA f : ~match_file(Val(exclude), f))
             ELSE included_files

filter_files_by_patterns(files, include, exclude) ==
    IF files = <<>> THEN <<>>
    ELSE LET included_files ==
                 IF Truthy(include)
                 THEN SelectSeq(files, LAMBDA f : match_file(Val(include), f))
                 ELSE files
         IN  IF Truthy(exclude)
             THEN SelectSeq(included_files, LAMBDA f : ~match_file(Val(exclude), f))
             ELSE included_files

----------------------------------------------------------------------------
(* models.py *)

DiffChunk(content, changes, header, hunk_line_mapping) ==
    [content |-> content, changes |-> changes, header |-> header,
     hunk_line_mapping |-> hunk_line_mapping]

DiffFile(old_path, new_path, chunks, hunk_line_mappings) ==
    [old_path |-> old_path, new_path |-> new_path,
     is_new_file |-> FALSE, is_deleted_file |-> FALSE, is_renamed_file |-> FALSE,
     chunks |-> chunks, hunk_line_mappings |-> hunk_line_mappings]

\* change.get('ln') or change.get('ln2') or '', formatted by the f-string
LineNum(change) ==
    IF ~IsNone(change.ln) /\ Val(change.ln) # 0 THEN IntToStr(Val(change.ln))
    ELSE IF ~IsNone(change.ln2) /\ Val(change.ln2) # 0 THEN IntToStr(Val(change.ln2))
    ELSE <<>>

\* content_for_llm that leaves the removed lines out
content_for_llm_NoRemoved(chunk) ==
    LET kept == SelectSeq(chunk.changes, LAMBDA change : change.type # "remove")
        lines == (IF chunk.header # <<>> THEN <<chunk.header>> ELSE <<>>)
                 \o [i \in 1..Len(kept) |->
                        LineNum(kept[i]) \o <<" ">> \o kept[i].content]
    IN  StrJoin(lines, NL)

\* DiffChunk.content_for_llm
content_for_llm(chunk) ==
    LET lines == (IF chunk.header # <<>> THEN <<chunk.header>> ELSE <<>>)
                 \o [i \in 1..Len(chunk.changes) |->
                        LineNum(chunk.changes[i]) \o <<" ">> \o chunk.changes[i].content]
    IN  StrJoin(lines, NL)

DEV_NULL == <<"/", "d", "e", "v", "/", "n", "u", "l", "l">>

\* DiffFile.display_path
display_path(f) == IF f.new_path # Some(DEV_NULL) THEN f.new_path ELSE f.old_path

\* dict[key] = value
DictSet(d, key, value) ==
    [k \in (DOMAIN d) \cup {key} |-> IF k = key THEN value ELSE d[k]]

----------------------------------------------------------------------------
(* The input alphabet: the lines a diff text is made of *)

DIFF_GIT == <<"d", "i", "f", "f", " ", "-", "-", "g", "i", "t">>

AT_AT == <<"@", "@">>

A_PREFIX == <<"a", "/">>

B_PREFIX == <<"b", "/">>

\* "src/f" and "tests/f", with one-letter directory names
PATH_SRC == <<"s", "/", "f">>

PATH_TST == <<"t", "/", "f">>

\* diff --git a/<old> b/<new>
GitLine(old, new) ==
    DIFF_GIT \o <<" ">> \o A_PREFIX \o old \o <<" ">> \o B_PREFIX \o new

LINE_GIT_SRC == GitLine(PATH_SRC, PATH_SRC)

LINE_GIT_TST == GitLine(PATH_TST, PATH_TST)

\* @@ -1 +1 @@ and @@ -5 +5 @@
LINE_HUNK_1 == AT_AT \o <<" ", "-", "1", " ", "+", "1", " ">> \o AT_AT

LINE_HUNK_5 == AT_AT \o <<" ", "-", "5", " ", "+", "5", " ">> \o AT_AT

LINE_ADD == <<"+", "x">>

LINE_REMOVE == <<"-", "y">>

LINE_CONTEXT == <<" ", "z">>

\* "deleted file mode": the extended header line of a deleted file, and the
\* one line of the alphabet that no branch of the loop recognises
LINE_DELETED == <<"d", "e", "l", "e", "t", "e", "d", " ", "f", "i", "l", "e",
                  " ", "m", "o", "d", "e">>

Lines == {LINE_GIT_SRC, LINE_GIT_TST, LINE_HUNK_1, LINE_HUNK_5,
          LINE_ADD, LINE_REMOVE, LINE_CONTEXT, LINE_DELETED}

\* longest diff text, in lines
MaxLen == 5

\* exclude "**/t/**", include "s/*", include "f"
PAT_EXCLUDE_TST == <<"*", "*", "/", "t", "/", "*", "*">>

PAT_INCLUDE_SRC == <<"s", "/", "*">>

PAT_INCLUDE_F == <<"f">>

\* the (include_patterns, exclude_patterns) arguments of an invocation
Configs ==
    { [include |-> None, exclude |-> None],
      [include |-> None, exclude |-> Some(<<PAT_EXCLUDE_TST>>)],
      [include |-> Some(<<PAT_INCLUDE_SRC>>), exclude |-> None],
      [include |-> Some(<<PAT_INCLUDE_F>>), exclude |-> Some(<<PAT_EXCLUDE_TST>>)] }

\* "lib/f": a path that holds "b/" after its first segment
PATH_LIB == <<"l", "i", "b", "/", "f">>

LINE_GIT_LIB == GitLine(PATH_LIB, PATH_LIB)

\* a rename: diff --git a/s/f b/t/f
LINE_GIT_RENAME == GitLine(PATH_SRC, PATH_TST)

\* diff --git s/f s/f: both paths without prefix (git diff --no-prefix)
LINE_GIT_NO_PREFIX == DIFF_GIT \o <<" ">> \o PATH_SRC \o <<" ">> \o PATH_SRC

\* diff --git s/f b/s/f: the first path without prefix
LINE_GIT_NO_A == DIFF_GIT \o <<" ">> \o PATH_SRC \o <<" ">> \o B_PREFIX \o PATH_SRC

\* diff --git a/s/f: one path only
LINE_GIT_ONE_PATH == DIFF_GIT \o <<" ">> \o A_PREFIX \o PATH_SRC

\* diff --git: no path
LINE_GIT_NO_PATH == DIFF_GIT

\* "--- /dev/null": the old side of a newly created file
LINE_NEW_FILE == <<"-", "-", "-", " ">> \o DEV_NULL

\* the lines of the texts that try the paths of the boundary lines
PathLines == {LINE_GIT_SRC, LINE_GIT_LIB, LINE_GIT_RENAME, LINE_GIT_NO_PREFIX,
              LINE_GIT_NO_A, LINE_GIT_ONE_PATH, LINE_GIT_NO_PATH, LINE_NEW_FILE,
              LINE_HUNK_5, LINE_ADD, LINE_REMOVE, LINE_CONTEXT}

\* longest such text, in lines
MaxLenPaths == 4

\* include "lib/*"
PAT_INCLUDE_LIB == <<"l", "i", "b", "/", "*">>

PathConfigs ==
    { [include |-> None, exclude |-> None],
      [include |-> Some(<<PAT_INCLUDE_LIB>>), exclude |-> None] }

\* the lines of the texts whose result the review comments are resolved on
ResolveLines == {LINE_GIT_SRC, LINE_HUNK_5, LINE_ADD, LINE_REMOVE, LINE_CONTEXT}

\* longest such text, in lines
MaxLenResolve == 7

\* no patterns
NoPatterns == { [include |-> None, exclude |-> None] }

\* the line numbers a review comment is made on
CommentLines == {1, 2}

\* an empty line and a line of one blank
LINE_EMPTY == <<>>

LINE_BLANK == <<" ">>

\* the lines of the texts that review_pr gets, blank ones among them
ReviewLines == {LINE_EMPTY, LINE_BLANK, LINE_GIT_SRC, LINE_HUNK_5,
                LINE_ADD, LINE_REMOVE, LINE_CONTEXT}

\* longest such text, in lines
MaxLenReview == 4

\* the lines of the texts of two calls in progress at once: call 7 takes
\* them all, call 8 the second set
TwoLines == {LINE_GIT_TST, LINE_HUNK_5, LINE_ADD, LINE_REMOVE}

TwoLinesOther == {LINE_GIT_TST, LINE_HUNK_5, LINE_ADD}

\* longest such text, in lines
MaxLenTwo == 3

\* the patterns of the two calls
TwoConfigs ==
    { [include |-> None, exclude |-> None],
      [include |-> None, exclude |-> Some(<<PAT_EXCLUDE_TST>>)] }

\* the lines of the texts whose parse is followed to its return
LiveLines == {LINE_GIT_SRC, LINE_HUNK_5, LINE_ADD, LINE_REMOVE, LINE_CONTEXT,
              LINE_DELETED}

\* longest such text, in lines
MaxLenLive == 4

\* an added line whose content has a blank in it
LINE_ADD_BLANK == <<"+", "a", " ", "b">>

\* the lines of the texts whose hunks are rendered for the reviewer
RenderLines == {LINE_GIT_SRC, LINE_HUNK_5, LINE_ADD_BLANK, LINE_REMOVE, LINE_CONTEXT}

\* longest such text, in lines
MaxLenRender == 5

\* the two file header lines between a boundary line and the first hunk
LINE_OLD_HEADER == <<"-", "-", "-", " ">> \o A_PREFIX \o PATH_SRC

LINE_NEW_HEADER == <<"+", "+", "+", " ">> \o B_PREFIX \o PATH_SRC

\* the marker that follows a last line without a newline
LINE_NO_NEWLINE == <<"\\", " ", "N", "o", " ", "n", "e", "w", "l", "i", "n", "e">>

\* the lines of the texts in which lines stand outside hunks and
\* unrecognised lines inside them
FrameLines == {LINE_GIT_SRC, LINE_GIT_TST, LINE_HUNK_5, LINE_ADD, LINE_REMOVE,
               LINE_CONTEXT, LINE_OLD_HEADER, LINE_NEW_HEADER, LINE_EMPTY,
               LINE_NO_NEWLINE}

\* longest such text, in lines
MaxLenFrame == 4

\* the patterns of the calls on such texts
FrameConfigs ==
    { [include |-> None, exclude |-> None],
      [include |-> None, exclude |-> Some(<<PAT_EXCLUDE_TST>>)] }

\* the lines of the texts whose files the posted comments are made on
PostLines == {LINE_GIT_SRC, LINE_HUNK_5, LINE_ADD, LINE_REMOVE}

\* longest such text, in lines
MaxLenPost == 5

\* the files the comments given to post_review_comments are made on
CommentPaths == {PATH_SRC, PATH_TST}

\* longest list of comments
MaxComments == 2

\* the lines the text of call c is made of, and its longest text.  Call 1
\* parses a general text, call 3 a text with unusual boundary lines, call 4
\* a text of hunks whose result a comment is resolved on, call 6 the text
\* that review_pr got, calls 7 and 8 are in progress at once.
LinesOf(c) ==
    CASE c = 3 -> PathLines
      [] c = 4 -> ResolveLines
      [] c = 6 -> ReviewLines
      [] c = 7 -> TwoLines
      [] c = 8 -> TwoLinesOther
      [] c = 9 -> LiveLines
      [] c = 10 -> RenderLines
      [] c = 11 -> FrameLines
      [] c = 12 -> PostLines
      [] OTHER -> Lines

MaxLenOf(c) ==
    CASE c = 3 -> MaxLenPaths
      [] c = 4 -> MaxLenResolve
      [] c = 6 -> MaxLenReview
      [] c \in {7, 8} -> MaxLenTwo
      [] c = 9 -> MaxLenLive
      [] c = 10 -> MaxLenRender
      [] c = 11 -> MaxLenFrame
      [] c = 12 -> MaxLenPost
      [] OTHER -> MaxLen

\* every line of every text
AllLines == Lines \cup PathLines \cup ResolveLines \cup ReviewLines \cup TwoLines
            \cup LiveLines \cup RenderLines \cup FrameLines

----------------------------------------------------------------------------
(* diff_parser.py: parse_diff_text *)

\* `if not diff_text` / `if not diff_text or diff_text.isspace()`: the text
\* is the lines joined by newlines, and a newline is whitespace
EmptyText(text) ==
    text = <<>> \/ \A i \in 1..Len(text) : text[i] = <<>> \/ IsSpace(text[i])

\* line.startswith(...) for the five prefixes the loop tests, evaluated once
\* for each line of the alphabet
Prefixes ==
    [line \in AllLines |->
        [git |-> StartsWith(line, DIFF_GIT), at |-> StartsWith(line, AT_AT),
         plus |-> StartsWith(line, <<"+">>), minus |-> StartsWith(line, <<"-">>),
         space |-> StartsWith(line, <<" ">>)]]

\* the conditions of the if / elif chain, in order

\* IsHunkLine that does not ask for a current file
IsHunkLine_AnyFile(c, line) == Prefixes[line].at

IsGitLine(line) == Prefixes[line].git

IsHunkLine(c, line) == Prefixes[line].at /\ ~IsNone(current_file[c])

IsAddedLine(c, line) == Prefixes[line].plus /\ ~IsNone(current_chunk[c])

IsRemovedLine(c, line) == Prefixes[line].minus /\ ~IsNone(current_chunk[c])

IsContextLine(c, line) == Prefixes[line].space /\ ~IsNone(current_chunk[c])

\* AppendChunk that puts the hunk in front of the file's hunks
AppendChunk_InFront(file, chunk) ==
    [file EXCEPT !.chunks = <<chunk>> \o @,
                 !.hunk_line_mappings = <<chunk.hunk_line_mapping>> \o @]

\* current_file.chunks.append(current_chunk);
\* current_file.hunk_line_mappings.append(current_chunk.hunk_line_mapping)
AppendChunk(file, chunk) ==
    [file EXCEPT !.chunks = Append(@, chunk),
                 !.hunk_line_mappings = Append(@, chunk.hunk_line_mapping)]

\* current_file.chunks.append(current_chunk) alone
AppendChunkOnly(file, chunk) == [file EXCEPT !.chunks = Append(@, chunk)]

\* x.split(sep)[1] raises IndexError when sep does not occur in x
Split1Raises(x, sep) == Len(StrSplit(x, sep)) < 2

Split1(x, sep) == StrSplit(x, sep)[2]

\* Lines 65-66 and 75-76 on one "diff --git" line: the paths, the display
\* path, and whether an index is out of range.
ParseGitLine(line) ==
    LET paths == Slice(SplitWs(line), 2, 4)
        raises66 == Len(paths) > 1 /\ Split1Raises(paths[2], B_PREFIX)
        raises75 == Len(paths) > 0 /\ Split1Raises(paths[1], A_PREFIX)
    IN  [raises66 |-> raises66,
         display_path |-> IF Len(paths) > 1 /\ ~raises66
                          THEN Some(Split1(paths[2], B_PREFIX)) ELSE None,
         raises75 |-> raises75,
         old_path |-> IF Len(paths) > 0 /\ ~raises75
                      THEN Some(Split1(paths[1], A_PREFIX)) ELSE None,
         new_path |-> IF Len(paths) > 1 /\ ~raises66
                      THEN Some(Split1(paths[2], B_PREFIX)) ELSE None]

\* ParseGitLine, evaluated once for each "diff --git" line of the alphabet
GitLineTable ==
    [line \in {l \in AllLines : StartsWith(l, DIFF_GIT)} |-> ParseGitLine(line)]

\* the state after lines 51-55, for the calls of the set Calls
InitCalls(Calls, Cfgs) ==
    /\ diff_text = [c \in Calls |-> <<>>]
    /\ include_patterns \in [Calls -> {cfg.include : cfg \in Cfgs}]
    /\ exclude_patterns \in [Calls -> {cfg.exclude : cfg \in Cfgs}]
    /\ \A c \in Calls :
          [include |-> include_patterns[c], exclude |-> exclude_patterns[c]] \in Cfgs
    /\ pc = [c \in Calls |-> "loop"]
    /\ result = [c \in Calls |-> <<>>]
    /\ current_file = [c \in Calls |-> None]
    /\ current_chunk = [c \in Calls |-> None]
    /\ current_hunk_line = [c \in Calls |-> 0]
    /\ current_diff_line = [c \in Calls |-> 0]

\* no filter call, no comment and no review flow is in progress
InitOthers(Calls) ==
    /\ filter_files = [c \in Calls |-> <<>>]
    /\ filter_result = [c \in Calls |-> None]
    /\ comment = [c \in Calls |-> None]
    /\ review_comments_payload = [c \in Calls |-> <<>>]
    /\ review = [c \in Calls |-> "direct"]
    /\ diff_chunk_content = [c \in Calls |-> None]
    /\ comments = [c \in Calls |-> <<>>]

Init == InitCalls({1}, Configs) /\ InitOthers({1})

\* the for loop takes the next line of the text
HasNext(c) == pc[c] = "loop" /\ Len(diff_text[c]) < MaxLenOf(c)

\* Consume that takes the line a second time
Consume_Twice(c, line) ==
    diff_text' = [diff_text EXCEPT ![c] = Append(Append(@, line), line)]

\* `for line in lines`: the loop takes the next line
Consume(c, line) == diff_text' = [diff_text EXCEPT ![c] = Append(@, line)]

\* lines 43-48: an empty or whitespace-only text returns []
EmptyDiff(c) ==
    /\ pc[c] = "loop"
    /\ EmptyText(diff_text[c])
    /\ pc' = [pc EXCEPT ![c] = "done"]
    /\ result' = [result EXCEPT ![c] = <<>>]
    /\ UNCHANGED <<diff_text, include_patterns, exclude_patterns, other_vars,
                   current_file, current_chunk, current_hunk_line, current_diff_line>>

\* lines 58-82: a "diff --git" line
DiffGitLine(c) ==
    /\ HasNext(c)
    /\ \E line \in LinesOf(c) :
       /\ IsGitLine(line)
       /\ Consume(c, line)
       /\ LET flush == ~IsNone(current_file[c]) /\ ~IsNone(current_chunk[c])
              flushed == IF flush
                         THEN Some(AppendChunk(Val(current_file[c]), Val(current_chunk[c])))
                         ELSE current_file[c]
              g == GitLineTable[line]
              skip == IsNone(g.display_path) \/ Val(g.display_path) = <<>>
                      \/ filter_files_by_patterns(<<Val(g.display_path)>>,
                             include_patterns[c], exclude_patterns[c]) = <<>>
          IN  /\ result' = [result EXCEPT ![c] =
                     IF flush THEN Append(@, Val(flushed)) ELSE @]
              /\ IF g.raises66 \/ (~skip /\ g.raises75)
                 THEN /\ pc' = [pc EXCEPT ![c] = "raised"]
                      /\ current_file' = [current_file EXCEPT ![c] = flushed]
                      /\ UNCHANGED <<current_chunk, current_hunk_line, current_diff_line>>
                 ELSE IF skip
                 THEN /\ current_file' = [current_file EXCEPT ![c] = None]
                      /\ current_chunk' = [current_chunk EXCEPT ![c] = None]
                      /\ UNCHANGED <<pc, current_hunk_line, current_diff_line>>
                 ELSE /\ current_file' = [current_file EXCEPT ![c] =
                             Some(DiffFile(g.old_path, g.new_path, <<>>, <<>>))]
                      /\ current_chunk' = [current_chunk EXCEPT ![c] = None]
                      /\ current_hunk_line' = [current_hunk_line EXCEPT ![c] = 0]
                      /\ current_diff_line' = [current_diff_line EXCEPT ![c] = 0]
                      /\ UNCHANGED pc
       /\ UNCHANGED <<include_patterns, exclude_patterns, other_vars>>

\* HunkLine that lets the counters of the previous hunk run on
HunkLine_NoReset(c) ==
    /\ HasNext(c)
    /\ \E line \in LinesOf(c) :
       /\ ~IsGitLine(line) /\ IsHunkLine(c, line)
       /\ Consume(c, line)
       /\ current_file' = [current_file EXCEPT ![c] =
              IF ~IsNone(current_chunk[c])
              THEN Some(AppendChunk(Val(@), Val(current_chunk[c])))
              ELSE @]
       /\ LET header == IF StartsWith(line, AT_AT) THEN line ELSE <<>>
          IN  current_chunk' = [current_chunk EXCEPT ![c] =
                  Some(DiffChunk(header \o <<NL>>, <<>>, header, <<>>))]
       /\ current_hunk_line' = [current_hunk_line EXCEPT ![c] =
              IF IsNone(current_chunk[c]) THEN 1 ELSE @]
       /\ current_diff_line' = [current_diff_line EXCEPT ![c] =
              IF IsNone(current_chunk[c]) THEN 1 ELSE @]
       /\ UNCHANGED <<include_patterns, exclude_patterns, other_vars, pc, result>>

\* HunkLine that drops the hunk in progress instead of appending it
HunkLine_DropsPrevious(c) ==
    /\ HasNext(c)
    /\ \E line \in LinesOf(c) :
       /\ ~IsGitLine(line) /\ IsHunkLine(c, line)
       /\ Consume(c, line)
       /\ LET header == IF StartsWith(line, AT_AT) THEN line ELSE <<>>
          IN  current_chunk' = [current_chunk EXCEPT ![c] =
                  Some(DiffChunk(header \o <<NL>>, <<>>, header, <<>>))]
       /\ current_hunk_line' = [current_hunk_line EXCEPT ![c] = 1]
       /\ current_diff_line' = [current_diff_line EXCEPT ![c] = 1]
       /\ UNCHANGED <<include_patterns, exclude_patterns, other_vars, pc, result,
                      current_file>>

\* HunkLine whose counters go on from where another call left them
HunkLine_LeftBehind(c) ==
    /\ HasNext(c)
    /\ \E line \in LinesOf(c) :
       /\ ~IsGitLine(line) /\ IsHunkLine(c, line)
       /\ Consume(c, line)
       /\ current_file' = [current_file EXCEPT ![c] =
              IF ~IsNone(current_chunk[c])
              THEN Some(AppendChunk(Val(@), Val(current_chunk[c])))
              ELSE @]
       /\ LET header == IF StartsWith(line, AT_AT) THEN line ELSE <<>>
          IN  current_chunk' = [current_chunk EXCEPT ![c] =
                  Some(DiffChunk(header \o <<NL>>, <<>>, header, <<>>))]
       /\ LET last == CHOOSE d \in DOMAIN pc : \A e \in DOMAIN pc : e <= d
          IN  /\ current_hunk_line' = [current_hunk_line EXCEPT ![c] =
                     IF c = last THEN 1 ELSE 1 + current_hunk_line[last]]
              /\ current_diff_line' = [current_diff_line EXCEPT ![c] =
                     IF c = last THEN 1 ELSE 1 + current_diff_line[last]]
       /\ UNCHANGED <<include_patterns, exclude_patterns, other_vars, pc, result>>

\* lines 84-99: a hunk header of the current file
HunkLine(c) ==
    /\ HasNext(c)
    /\ \E line \in LinesOf(c) :
       /\ ~IsGitLine(line) /\ IsHunkLine(c, line)
       /\ Consume(c, line)
       /\ current_file' = [current_file EXCEPT ![c] =
              IF ~IsNone(current_chunk[c])
              THEN Some(AppendChunk(Val(@), Val(current_chunk[c])))
              ELSE @]
       /\ LET header == IF StartsWith(line, AT_AT) THEN line ELSE <<>>
          IN  current_chunk' = [current_chunk EXCEPT ![c] =
                  Some(DiffChunk(header \o <<NL>>, <<>>, header, <<>>))]
       /\ current_hunk_line' = [current_hunk_line EXCEPT ![c] = 1]
       /\ current_diff_line' = [current_diff_line EXCEPT ![c] = 1]
       /\ UNCHANGED <<include_patterns, exclude_patterns, other_vars, pc, result>>

\* lines 103-110: the hunk after an added line
AddedChange(chunk, line, hunk_line, diff_line) ==
    [chunk EXCEPT
        !.content = @ \o line \o <<NL>>,
        !.changes = Append(@, [type |-> "add", content |-> Tail1(line),
                               ln |-> Some(hunk_line), ln2 |-> None]),
        !.hunk_line_mapping = DictSet(@, hunk_line, <<hunk_line, diff_line>>)]

\* AddedLine that counts the diff line for every call in progress
AddedLine_SharedCounter(c) ==
    /\ HasNext(c)
    /\ \E line \in LinesOf(c) :
       /\ ~IsGitLine(line) /\ ~IsHunkLine(c, line) /\ IsAddedLine(c, line)
       /\ Consume(c, line)
       /\ current_chunk' = [current_chunk EXCEPT ![c] =
              Some(AddedChange(Val(@), line, current_hunk_line[c], current_diff_line[c]))]
       /\ current_hunk_line' = [current_hunk_line EXCEPT ![c] = @ + 1]
       /\ current_diff_line' = [d \in DOMAIN current_diff_line |-> current_diff_line[d] + 1]
       /\ UNCHANGED <<include_patterns, exclude_patterns, other_vars, pc, result, current_file>>

\* lines 101-112: an added line of the current hunk
AddedLine(c) ==
    /\ HasNext(c)
    /\ \E line \in LinesOf(c) :
       /\ ~IsGitLine(line) /\ ~IsHunkLine(c, line) /\ IsAddedLine(c, line)
       /\ Consume(c, line)
       /\ current_chunk' = [current_chunk EXCEPT ![c] =
              Some(AddedChange(Val(@), line, current_hunk_line[c], current_diff_line[c]))]
       /\ current_hunk_line' = [current_hunk_line EXCEPT ![c] = @ + 1]
       /\ current_diff_line' = [current_diff_line EXCEPT ![c] = @ + 1]
       /\ UNCHANGED <<include_patterns, exclude_patterns, other_vars, pc, result, current_file>>

\* RemovedChange that records the removed line in the map as well
RemovedChange_Mapped(chunk, line, hunk_line, diff_line) ==
    [chunk EXCEPT
        !.content = @ \o line \o <<NL>>,
        !.changes = Append(@, [type |-> "remove", content |-> Tail1(line),
                               ln |-> None, ln2 |-> Some(hunk_line)]),
        !.hunk_line_mapping = DictSet(@, hunk_line, <<hunk_line, diff_line>>)]

\* lines 116-122: the hunk after a removed line
RemovedChange(chunk, line, hunk_line, diff_line) ==
    [chunk EXCEPT
        !.content = @ \o line \o <<NL>>,
        !.changes = Append(@, [type |-> "remove", content |-> Tail1(line),
                               ln |-> None, ln2 |-> Some(hunk_line)])]

\* RemovedLine that leaves the diff line counter alone
RemovedLine_NoPosition(c) ==
    /\ HasNext(c)
    /\ \E line \in LinesOf(c) :
       /\ ~IsGitLine(line) /\ ~IsHunkLine(c, line) /\ ~IsAddedLine(c, line)
       /\ IsRemovedLine(c, line)
       /\ Consume(c, line)
       /\ current_chunk' = [current_chunk EXCEPT ![c] =
              Some(RemovedChange(Val(@), line, current_hunk_line[c], current_diff_line[c]))]
       /\ UNCHANGED <<include_patterns, exclude_patterns, other_vars, pc, result,
                      current_file, current_hunk_line, current_diff_line>>

\* lines 114-123: a removed line of the current hunk
RemovedLine(c) ==
    /\ HasNext(c)
    /\ \E line \in LinesOf(c) :
       /\ ~IsGitLine(line) /\ ~IsHunkLine(c, line) /\ ~IsAddedLine(c, line)
       /\ IsRemovedLine(c, line)
       /\ Consume(c, line)
       /\ current_chunk' = [current_chunk EXCEPT ![c] =
              Some(RemovedChange(Val(@), line, current_hunk_line[c], current_diff_line[c]))]
       /\ current_diff_line' = [current_diff_line EXCEPT ![c] = @ + 1]
       /\ UNCHANGED <<include_patterns, exclude_patterns, other_vars, pc, result,
                      current_file, current_hunk_line>>

\* ContextChange that keys the entry by the diff position
ContextChange_KeyedByPosition(chunk, line, hunk_line, diff_line) ==
    [chunk EXCEPT
        !.content = @ \o line \o <<NL>>,
        !.changes = Append(@, [type |-> "context", content |-> Tail1(line),
                               ln |-> Some(hunk_line), ln2 |-> Some(hunk_line)]),
        !.hunk_line_mapping = DictSet(@, diff_line, <<hunk_line, diff_line>>)]

\* lines 127-134: the hunk after a context line
ContextChange(chunk, line, hunk_line, diff_line) ==
    [chunk EXCEPT
        !.content = @ \o line \o <<NL>>,
        !.changes = Append(@, [type |-> "context", content |-> Tail1(line),
                               ln |-> Some(hunk_line), ln2 |-> Some(hunk_line)]),
        !.hunk_line_mapping = DictSet(@, hunk_line, <<hunk_line, diff_line>>)]

\* lines 125-136: a context line of the current hunk
ContextLine(c) ==
    /\ HasNext(c)
    /\ \E line \in LinesOf(c) :
       /\ ~IsGitLine(line) /\ ~IsHunkLine(c, line) /\ ~IsAddedLine(c, line)
       /\ ~IsRemovedLine(c, line) /\ IsContextLine(c, line)
       /\ Consume(c, line)
       /\ current_chunk' = [current_chunk EXCEPT ![c] =
              Some(ContextChange(Val(@), line, current_hunk_line[c], current_diff_line[c]))]
       /\ current_hunk_line' = [current_hunk_line EXCEPT ![c] = @ + 1]
       /\ current_diff_line' = [current_diff_line EXCEPT ![c] = @ + 1]
       /\ UNCHANGED <<include_patterns, exclude_patterns, other_vars, pc, result, current_file>>

\* OtherLine that counts a diff position for the line
OtherLine_CountsPosition(c) ==
    /\ HasNext(c)
    /\ \E line \in LinesOf(c) :
       /\ ~IsGitLine(line) /\ ~IsHunkLine(c, line) /\ ~IsAddedLine(c, line)
       /\ ~IsRemovedLine(c, line) /\ ~IsContextLine(c, line)
       /\ Consume(c, line)
       /\ current_diff_line' = [current_diff_line EXCEPT ![c] = @ + 1]
       /\ UNCHANGED <<include_patterns, exclude_patterns, other_vars, pc, result,
                      current_file, current_chunk, current_hunk_line>>

\* a line that no branch of the chain takes: the loop goes on to the next
OtherLine(c) ==
    /\ HasNext(c)
    /\ \E line \in LinesOf(c) :
       /\ ~IsGitLine(line) /\ ~IsHunkLine(c, line) /\ ~IsAddedLine(c, line)
       /\ ~IsRemovedLine(c, line) /\ ~IsContextLine(c, line)
       /\ Consume(c, line)
       /\ UNCHANGED <<include_patterns, exclude_patterns, other_vars, pc, result,
                      current_file, current_chunk, current_hunk_line, current_diff_line>>

\* Return that forgets the file in progress
Return_NoFlush(c) ==
    /\ pc[c] = "loop"
    /\ ~EmptyText(diff_text[c])
    /\ pc' = [pc EXCEPT ![c] = "done"]
    /\ UNCHANGED <<diff_text, include_patterns, exclude_patterns, other_vars, result, current_file,
                   current_chunk, current_hunk_line, current_diff_line>>

\* Return that appends the file in progress whether or not it has a hunk
Return_AnyFile(c) ==
    /\ pc[c] = "loop"
    /\ ~EmptyText(diff_text[c])
    /\ LET flushed == IF ~IsNone(current_file[c]) /\ ~IsNone(current_chunk[c])
                      THEN Some(AppendChunkOnly(Val(current_file[c]), Val(current_chunk[c])))
                      ELSE current_file[c]
       IN  /\ current_file' = [current_file EXCEPT ![c] = flushed]
           /\ result' = [result EXCEPT ![c] =
                  IF ~IsNone(current_file[c]) THEN Append(@, Val(flushed)) ELSE @]
    /\ pc' = [pc EXCEPT ![c] = "done"]
    /\ UNCHANGED <<diff_text, include_patterns, exclude_patterns, other_vars,
                   current_chunk, current_hunk_line, current_diff_line>>

\* lines 138-143: after the last line of the text
Return(c) ==
    /\ pc[c] = "loop"
    /\ ~EmptyText(diff_text[c])
    /\ LET flush == ~IsNone(current_file[c]) /\ ~IsNone(current_chunk[c])
           flushed == IF flush
                      THEN Some(AppendChunkOnly(Val(current_file[c]), Val(current_chunk[c])))
                      ELSE current_file[c]
       IN  /\ current_file' = [current_file EXCEPT ![c] = flushed]
           /\ result' = [result EXCEPT ![c] =
                  IF flush THEN Append(@, Val(flushed)) ELSE @]
    /\ pc' = [pc EXCEPT ![c] = "done"]
    /\ UNCHANGED <<diff_text, include_patterns, exclude_patterns, other_vars,
                   current_chunk, current_hunk_line, current_diff_line>>

Next ==
    \/ EmptyDiff(1)
    \/ DiffGitLine(1)
    \/ HunkLine(1)
    \/ AddedLine(1)
    \/ RemovedLine(1)
    \/ ContextLine(1)
    \/ OtherLine(1)
    \/ Return(1)

Spec == Init /\ [][Next]_vars

----------------------------------------------------------------------------
(* The calls of the other specifications *)

\* the paths a list given to filter_files_by_patterns is made of
FilterPaths == {PATH_SRC, PATH_TST, PATH_LIB}

\* longest such list
MaxFiles == 3

\* the lists of at most n elements of S
SeqsUpTo(S, n) == UNION {[1..k -> S] : k \in 0..n}

\* a call of filter_files_by_patterns (call 5) on a list of paths
InitFilter ==
    /\ InitCalls({5}, Configs)
    /\ filter_files \in [{5} -> SeqsUpTo(FilterPaths, MaxFiles)]
    /\ filter_result = [c \in {5} |-> None]
    /\ comment = [c \in {5} |-> None]
    /\ review_comments_payload = [c \in {5} |-> <<>>]
    /\ review = [c \in {5} |-> "direct"]
    /\ diff_chunk_content = [c \in {5} |-> None]
    /\ comments = [c \in {5} |-> <<>>]

\* file_filter.py lines 5-44: the call returns
FilterCall(c) ==
    /\ IsNone(filter_result[c])
    /\ filter_result' = [filter_result EXCEPT ![c] =
           Some(filter_files_by_patterns(filter_files[c],
                                         include_patterns[c], exclude_patterns[c]))]
    /\ UNCHANGED <<diff_text, include_patterns, exclude_patterns, pc, result,
                   current_file, current_chunk, current_hunk_line, current_diff_line,
                   filter_files, comment, review_comments_payload, review, review_vars>>

NextFilter == FilterCall(5)

SpecFilter == InitFilter /\ [][NextFilter]_vars

\* the pattern arguments of a call, each absent, empty or one pattern
EmptyConfigs ==
    [include : {None, Some(<<>>), Some(<<PAT_INCLUDE_SRC>>)},
     exclude : {None, Some(<<>>), Some(<<PAT_EXCLUDE_TST>>)}]

\* one call (13) of filter_files_by_patterns with such arguments
InitFilterEmpty ==
    /\ InitCalls({13}, EmptyConfigs)
    /\ filter_files \in [{13} -> SeqsUpTo(FilterPaths, MaxFiles)]
    /\ filter_result = [c \in {13} |-> None]
    /\ comment = [c \in {13} |-> None]
    /\ review_comments_payload = [c \in {13} |-> <<>>]
    /\ review = [c \in {13} |-> "direct"]
    /\ diff_chunk_content = [c \in {13} |-> None]
    /\ comments = [c \in {13} |-> <<>>]

NextFilterEmpty == FilterCall(13)

SpecFilterEmpty == InitFilterEmpty /\ [][NextFilterEmpty]_vars

\* one call on a text that tries the paths of the boundary lines
InitPaths == InitCalls({3}, PathConfigs) /\ InitOthers({3})

NextPaths ==
    \/ EmptyDiff(3)
    \/ DiffGitLine(3)
    \/ HunkLine(3)
    \/ AddedLine(3)
    \/ RemovedLine(3)
    \/ ContextLine(3)
    \/ OtherLine(3)
    \/ Return(3)

SpecPaths == InitPaths /\ [][NextPaths]_vars

----------------------------------------------------------------------------
(* scm_client.py: the position lookup of post_review_comments *)

\* Resolve that goes on after the first hunk mapping that holds the line
Resolve_Last(diff_file, line_number) ==
    LET maps == diff_file.hunk_line_mappings
        hits == {k \in 1..Len(maps) : line_number \in DOMAIN maps[k]}
    IN  IF hits = {} THEN None
        ELSE LET last == CHOOSE k \in hits : \A j \in hits : k >= j
             IN  Some(maps[last][line_number][2])

\* Resolve that looks the line up among the lines of the hunks, removed
\* lines included
Resolve_AnyLine(diff_file, line_number) ==
    LET chunks == diff_file.chunks
        hits == {k \in 1..Len(chunks) :
                    \E i \in 1..Len(chunks[k].changes) :
                       Some(line_number) \in {chunks[k].changes[i].ln,
                                               chunks[k].changes[i].ln2}}
    IN  IF hits = {} THEN None ELSE Some(1)

\* lines 227-239: the first hunk mapping, in order, that holds line_number
\* gives the diff line; None when no mapping holds it
Resolve(diff_file, line_number) ==
    LET maps == diff_file.hunk_line_mappings
        hits == {k \in 1..Len(maps) : line_number \in DOMAIN maps[k]}
    IN  IF hits = {} THEN None
        ELSE LET first == CHOOSE k \in hits : \A j \in hits : k <= j
             IN  Some(maps[first][line_number][2])

\* line 222: the first file of diff_files whose new_path is file_path
FindFile(diff_files, file_path) ==
    LET hits == {k \in 1..Len(diff_files) : diff_files[k].new_path = Some(file_path)}
    IN  IF hits = {} THEN None
        ELSE Some(diff_files[CHOOSE k \in hits : \A j \in hits : k <= j])

\* lines 216-246: one comment of post_review_comments, made on a file of the
\* parsed diff
PostComment(c) ==
    /\ pc[c] = "done"
    /\ IsNone(comment[c])
    /\ \E line_number \in CommentLines :
          LET file_path == PATH_SRC
              diff_file == FindFile(result[c], file_path)
              diff_line_number == IF IsNone(diff_file) THEN None
                                  ELSE Resolve(Val(diff_file), line_number)
          IN  /\ comment' = [comment EXCEPT ![c] =
                     Some([file_path |-> file_path, line_number |-> line_number])]
              /\ review_comments_payload' = [review_comments_payload EXCEPT ![c] =
                     IF IsNone(diff_line_number) THEN @
                     ELSE Append(@, [path |-> file_path, line |-> Val(diff_line_number)])]
    /\ UNCHANGED <<diff_text, include_patterns, exclude_patterns, pc, result,
                   current_file, current_chunk, current_hunk_line, current_diff_line,
                   filter_files, filter_result, review, review_vars>>

\* PostNext that posts an unresolved comment at its own line number
PostNext_Fallback(c) ==
    /\ pc[c] = "done" /\ review[c] = "diff_files_set"
    /\ Len(comments[c]) < MaxComments
    /\ \E file_path \in CommentPaths : \E line_number \in CommentLines :
          LET diff_file == FindFile(result[c], file_path)
              diff_line_number == IF IsNone(diff_file) THEN None
                                  ELSE Resolve(Val(diff_file), line_number)
          IN  /\ comments' = [comments EXCEPT ![c] =
                     Append(@, [file_path |-> file_path, line_number |-> line_number])]
              /\ review_comments_payload' = [review_comments_payload EXCEPT ![c] =
                     IF IsNone(diff_line_number)
                     THEN Append(@, [path |-> file_path, line |-> line_number])
                     ELSE Append(@, [path |-> file_path, line |-> Val(diff_line_number)])]
    /\ UNCHANGED <<diff_text, include_patterns, exclude_patterns, pc, result,
                   current_file, current_chunk, current_hunk_line, current_diff_line,
                   filter_files, filter_result, comment, review, diff_chunk_content>>

\* lines 216-246: one iteration of `for comment in comments`, with
\* self.config.diff_files holding the parsed files
PostNext(c) ==
    /\ pc[c] = "done" /\ review[c] = "diff_files_set"
    /\ Len(comments[c]) < MaxComments
    /\ \E file_path \in CommentPaths : \E line_number \in CommentLines :
          LET diff_file == FindFile(result[c], file_path)
              diff_line_number == IF IsNone(diff_file) THEN None
                                  ELSE Resolve(Val(diff_file), line_number)
          IN  /\ comments' = [comments EXCEPT ![c] =
                     Append(@, [file_path |-> file_path, line_number |-> line_number])]
              /\ review_comments_payload' = [review_comments_payload EXCEPT ![c] =
                     IF IsNone(diff_line_number) THEN @
                     ELSE Append(@, [path |-> file_path, line |-> Val(diff_line_number)])]
    /\ UNCHANGED <<diff_text, include_patterns, exclude_patterns, pc, result,
                   current_file, current_chunk, current_hunk_line, current_diff_line,
                   filter_files, filter_result, comment, review, diff_chunk_content>>

\* line 222 with no diff_files attribute on the config (nothing in main.py
\* or plugin_config.py sets one): the first iteration raises AttributeError
\* and no payload is posted
PostRaises(c) ==
    /\ pc[c] = "done" /\ review[c] = "diff_files_unset"
    /\ \E file_path \in CommentPaths : \E line_number \in CommentLines :
          comments' = [comments EXCEPT ![c] =
              Append(@, [file_path |-> file_path, line_number |-> line_number])]
    /\ review' = [review EXCEPT ![c] = "post_raised"]
    /\ UNCHANGED <<diff_text, include_patterns, exclude_patterns, pc, result,
                   current_file, current_chunk, current_hunk_line, current_diff_line,
                   filter_files, filter_result, comment, review_comments_payload,
                   diff_chunk_content>>

\* one call (12) on a text of hunks, and the comments posted on its result
InitPost ==
    /\ InitCalls({12}, NoPatterns)
    /\ filter_files = [c \in {12} |-> <<>>]
    /\ filter_result = [c \in {12} |-> None]
    /\ comment = [c \in {12} |-> None]
    /\ review_comments_payload = [c \in {12} |-> <<>>]
    /\ review \in [{12} -> {"diff_files_set", "diff_files_unset"}]
    /\ diff_chunk_content = [c \in {12} |-> None]
    /\ comments = [c \in {12} |-> <<>>]

NextPost ==
    \/ EmptyDiff(12)
    \/ DiffGitLine(12)
    \/ HunkLine(12)
    \/ AddedLine(12)
    \/ RemovedLine(12)
    \/ OtherLine(12)
    \/ Return(12)
    \/ PostNext(12)
    \/ PostRaises(12)

SpecPost == InitPost /\ [][NextPost]_vars

\* one call on a text of hunks, and a comment on its result
InitResolve == InitCalls({4}, NoPatterns) /\ InitOthers({4})

NextResolve ==
    \/ EmptyDiff(4)
    \/ DiffGitLine(4)
    \/ HunkLine(4)
    \/ AddedLine(4)
    \/ RemovedLine(4)
    \/ ContextLine(4)
    \/ OtherLine(4)
    \/ Return(4)
    \/ PostComment(4)

SpecResolve == InitResolve /\ [][NextResolve]_vars

----------------------------------------------------------------------------
(* main.py: review_pr around the parse *)

\* ReviewNoDiff that goes on to parse the text it did not get
ReviewNoDiff_Parses(c) ==
    /\ review[c] = "get_diff"
    /\ review' = [review EXCEPT ![c] = "no_diff_text"]
    /\ pc' = [pc EXCEPT ![c] = "loop"]
    /\ UNCHANGED <<diff_text, include_patterns, exclude_patterns, result,
                   current_file, current_chunk, current_hunk_line, current_diff_line,
                   filter_files, filter_result, comment, review_comments_payload,
                   review_vars>>

\* lines 297-299: no diff text was retrieved (None or ""): return True
ReviewNoDiff(c) ==
    /\ review[c] = "get_diff"
    /\ review' = [review EXCEPT ![c] = "no_diff_text"]
    /\ UNCHANGED <<diff_text, include_patterns, exclude_patterns, pc, result,
                   current_file, current_chunk, current_hunk_line, current_diff_line,
                   filter_files, filter_result, comment, review_comments_payload,
                   review_vars>>

\* line 305: a non-empty text was retrieved: parse_diff_text(diff_text)
ReviewParse(c) ==
    /\ review[c] = "get_diff"
    /\ review' = [review EXCEPT ![c] = "parsing"]
    /\ pc' = [pc EXCEPT ![c] = "loop"]
    /\ UNCHANGED <<diff_text, include_patterns, exclude_patterns, result,
                   current_file, current_chunk, current_hunk_line, current_diff_line,
                   filter_files, filter_result, comment, review_comments_payload,
                   review_vars>>

\* lines 306-308: no file was parsed: return True
ReviewNoFiles(c) ==
    /\ review[c] = "parsing" /\ pc[c] = "done"
    /\ result[c] = <<>>
    /\ review' = [review EXCEPT ![c] = "no_files"]
    /\ UNCHANGED <<diff_text, include_patterns, exclude_patterns, pc, result,
                   current_file, current_chunk, current_hunk_line, current_diff_line,
                   filter_files, filter_result, comment, review_comments_payload,
                   review_vars>>

\* lines 310-382: files were parsed: they are reviewed and comments posted
ReviewFiles(c) ==
    /\ review[c] = "parsing" /\ pc[c] = "done"
    /\ result[c] # <<>>
    /\ review' = [review EXCEPT ![c] = "reviewing"]
    /\ UNCHANGED <<diff_text, include_patterns, exclude_patterns, pc, result,
                   current_file, current_chunk, current_hunk_line, current_diff_line,
                   filter_files, filter_result, comment, review_comments_payload,
                   review_vars>>

\* review_pr (call 6) from the retrieval of the diff text on: the parser
\* is not called yet
InitReview ==
    /\ diff_text = [c \in {6} |-> <<>>]
    /\ include_patterns = [c \in {6} |-> None]
    /\ exclude_patterns = [c \in {6} |-> None]
    /\ pc = [c \in {6} |-> "not_called"]
    /\ result = [c \in {6} |-> <<>>]
    /\ current_file = [c \in {6} |-> None]
    /\ current_chunk = [c \in {6} |-> None]
    /\ current_hunk_line = [c \in {6} |-> 0]
    /\ current_diff_line = [c \in {6} |-> 0]
    /\ filter_files = [c \in {6} |-> <<>>]
    /\ filter_result = [c \in {6} |-> None]
    /\ comment = [c \in {6} |-> None]
    /\ review_comments_payload = [c \in {6} |-> <<>>]
    /\ review = [c \in {6} |-> "get_diff"]
    /\ diff_chunk_content = [c \in {6} |-> None]
    /\ comments = [c \in {6} |-> <<>>]

\* the parser is entered from line 305 only, with a text that is not empty;
\* comments are posted only once files are under review
NextReview ==
    \/ ReviewNoDiff(6)
    \/ ReviewParse(6)
    \/ diff_text[6] # <<>> /\ EmptyDiff(6)
    \/ DiffGitLine(6)
    \/ HunkLine(6)
    \/ AddedLine(6)
    \/ RemovedLine(6)
    \/ ContextLine(6)
    \/ OtherLine(6)
    \/ Return(6)
    \/ ReviewNoFiles(6)
    \/ ReviewFiles(6)
    \/ review[6] = "reviewing" /\ PostComment(6)

SpecReview == InitReview /\ [][NextReview]_vars

----------------------------------------------------------------------------
(* diff_parser.py: two invocations of parse_diff_text in progress at once, *)
(* and one invocation run alone from its first line to its return          *)

InitTwo == InitCalls({7, 8}, TwoConfigs) /\ InitOthers({7, 8})

\* a step of either call, in any order
NextTwo ==
    \/ EmptyDiff(7)
    \/ DiffGitLine(7)
    \/ HunkLine(7)
    \/ AddedLine(7)
    \/ RemovedLine(7)
    \/ OtherLine(7)
    \/ Return(7)
    \/ EmptyDiff(8)
    \/ DiffGitLine(8)
    \/ HunkLine(8)
    \/ AddedLine(8)
    \/ OtherLine(8)
    \/ Return(8)

SpecTwo == InitTwo /\ [][NextTwo]_vars

\* main.py lines 331-341: a hunk of a parsed file is rendered for the reviewer
ReviewChunk(c) ==
    /\ pc[c] = "done"
    /\ IsNone(diff_chunk_content[c])
    /\ \E i \in 1..Len(result[c]) : \E j \in 1..Len(result[c][i].chunks) :
          diff_chunk_content' = [diff_chunk_content EXCEPT ![c] =
              Some([file |-> i, chunk |-> j,
                    text |-> content_for_llm(result[c][i].chunks[j])])]
    /\ UNCHANGED <<diff_text, include_patterns, exclude_patterns, pc, result,
                   current_file, current_chunk, current_hunk_line, current_diff_line,
                   filter_files, filter_result, comment, review_comments_payload,
                   review, comments>>

\* one call (10) whose hunks are rendered
InitRender == InitCalls({10}, NoPatterns) /\ InitOthers({10})

NextRender ==
    \/ EmptyDiff(10)
    \/ DiffGitLine(10)
    \/ HunkLine(10)
    \/ AddedLine(10)
    \/ RemovedLine(10)
    \/ ContextLine(10)
    \/ OtherLine(10)
    \/ Return(10)
    \/ ReviewChunk(10)

SpecRender == InitRender /\ [][NextRender]_vars

\* one call (11) on a text with lines outside hunks and unrecognised lines
InitFrame == InitCalls({11}, FrameConfigs) /\ InitOthers({11})

NextFrame ==
    \/ EmptyDiff(11)
    \/ DiffGitLine(11)
    \/ HunkLine(11)
    \/ AddedLine(11)
    \/ RemovedLine(11)
    \/ ContextLine(11)
    \/ OtherLine(11)
    \/ Return(11)

SpecFrame == InitFrame /\ [][NextFrame]_vars

\* one call (9) followed to its return.  The interpreter runs the statement
\* that is next, so a call that can take a step does take one.
InitLive == InitCalls({9}, NoPatterns) /\ InitOthers({9})

NextLive ==
    \/ EmptyDiff(9)
    \/ DiffGitLine(9)
    \/ HunkLine(9)
    \/ AddedLine(9)
    \/ RemovedLine(9)
    \/ ContextLine(9)
    \/ OtherLine(9)
    \/ Return(9)

SpecLive == InitLive /\ [][NextLive]_vars /\ WF_vars(NextLive)

\* lines 50-55: the locals of an invocation before the loop
AloneInit ==
    [result |-> <<>>, current_file |-> None, current_chunk |-> None,
     current_hunk_line |-> 0, current_diff_line |-> 0, raised |-> FALSE]

\* lines 57-136: one iteration of the loop on the locals st
AloneStep(st, line, include, exclude) ==
    LET p == Prefixes[line]
        inFile == ~IsNone(st.current_file)
        inChunk == ~IsNone(st.current_chunk)
    IN  IF st.raised THEN st
        ELSE IF p.git THEN
            LET flush == inFile /\ inChunk
                flushed == IF flush
                           THEN Some(AppendChunk(Val(st.current_file), Val(st.current_chunk)))
                           ELSE st.current_file
                g == GitLineTable[line]
                skip == IsNone(g.display_path) \/ Val(g.display_path) = <<>>
                        \/ filter_files_by_patterns(<<Val(g.display_path)>>,
                               include, exclude) = <<>>
                res == IF flush THEN Append(st.result, Val(flushed)) ELSE st.result
            IN  IF g.raises66 \/ (~skip /\ g.raises75)
                THEN [st EXCEPT !.result = res, !.current_file = flushed, !.raised = TRUE]
                ELSE IF skip
                THEN [st EXCEPT !.result = res, !.current_file = None,
                                !.current_chunk = None]
                ELSE [result |-> res,
                      current_file |-> Some(DiffFile(g.old_path, g.new_path, <<>>, <<>>)),
                      current_chunk |-> None,
                      current_hunk_line |-> 0, current_diff_line |-> 0,
                      raised |-> FALSE]
        ELSE IF p.at /\ inFile THEN
            [st EXCEPT
                !.current_file = IF inChunk
                                 THEN Some(AppendChunk(Val(@), Val(st.current_chunk)))
                                 ELSE @,
                !.current_chunk = Some(DiffChunk(line \o <<NL>>, <<>>, line, <<>>)),
                !.current_hunk_line = 1,
                !.current_diff_line = 1]
        ELSE IF p.plus /\ inChunk THEN
            [st EXCEPT
                !.current_chunk = Some(AddedChange(Val(@), line,
                                      st.current_hunk_line, st.current_diff_line)),
                !.current_hunk_line = @ + 1,
                !.current_diff_line = @ + 1]
        ELSE IF p.minus /\ inChunk THEN
            [st EXCEPT
                !.current_chunk = Some(RemovedChange(Val(@), line,
                                      st.current_hunk_line, st.current_diff_line)),
                !.current_diff_line = @ + 1]
        ELSE IF p.space /\ inChunk THEN
            [st EXCEPT
                !.current_chunk = Some(ContextChange(Val(@), line,
                                      st.current_hunk_line, st.current_diff_line)),
                !.current_hunk_line = @ + 1,
                !.current_diff_line = @ + 1]
        ELSE st

\* the locals after the loop has taken the lines of text, run alone
RECURSIVE AloneLoop(_, _, _)
AloneLoop(text, include, exclude) ==
    IF text = <<>> THEN AloneInit
    ELSE AloneStep(AloneLoop(SubSeq(text, 1, Len(text) - 1), include, exclude),
                   text[Len(text)], include, exclude)

\* lines 43-48 and 138-143: what parse_diff_text(text, exclude, include)
\* returns, run alone
ParseAlone(text, include, exclude) ==
    IF EmptyText(text) THEN <<>>
    ELSE LET st == AloneLoop(text, include, exclude)
         IN  IF ~IsNone(st.current_file) /\ ~IsNone(st.current_chunk)
             THEN Append(st.result,
                         AppendChunkOnly(Val(st.current_file), Val(st.current_chunk)))
             ELSE st.result

----------------------------------------------------------------------------
(* What the claims speak of: the files and hunks of a call, and the        *)
(* structure of its input text                                             *)

SeqToSet(seq) == {seq[i] : i \in 1..Len(seq)}

\* the elements of a finite set of integers, in increasing order
Sorted(S) ==
    [k \in 1..Cardinality(S) |-> CHOOSE x \in S : Cardinality({y \in S : y < x}) = k - 1]

\* every file of the call: the returned ones and the one in progress
FilesOf(c) ==
    SeqToSet(result[c]) \cup (IF IsNone(current_file[c]) THEN {} ELSE {Val(current_file[c])})

\* every hunk of the call: those of its files and the one in progress
ChunksOf(c) ==
    UNION {SeqToSet(f.chunks) : f \in FilesOf(c)}
    \cup (IF IsNone(current_chunk[c]) THEN {} ELSE {Val(current_chunk[c])})

\* the positions, in a hunk's changes, of its context and added lines
TargetIdx(ch) == {i \in 1..Len(ch.changes) : ch.changes[i].type # "remove"}

\* the target line numbers of a hunk's context and added lines
TargetLines(ch) == {Val(ch.changes[i].ln) : i \in TargetIdx(ch)}

Done(c) == pc[c] = "done"

\* the "diff --git" boundary lines of a text
Boundaries(text) == {i \in 1..Len(text) : Prefixes[text[i]].git}

\* the last line before the first of the marks bs that follows line b, or
\* line last when no mark follows
EndBefore(bs, last, b) ==
    LET later == {i \in bs : i > b}
    IN  IF later = {} THEN last
        ELSE (CHOOSE i \in later : \A j \in later : i <= j) - 1

\* the last line of the section that boundary b opens
SectionEnd(text, b) == EndBefore(Boundaries(text), Len(text), b)

\* the "@@" header lines among the lines b+1 .. last
HeadersIn(text, b, last) == {i \in (b + 1)..last : Prefixes[text[i]].at}

\* the "@@" header lines of the section of boundary b
HeadersOf(text, b) == HeadersIn(text, b, SectionEnd(text, b))

\* the lines h+1 .. last that start with "+", "-" or " "
ClassifiedIn(text, h, last) ==
    {i \in (h + 1)..last :
        Prefixes[text[i]].plus \/ Prefixes[text[i]].minus \/ Prefixes[text[i]].space}

\* the classified lines of the hunk that header h of the section of b opens
ClassifiedOf(text, b, h) ==
    ClassifiedIn(text, h, EndBefore(HeadersOf(text, b), SectionEnd(text, b), h))

\* <q> of the boundary lines "diff --git a/<p> b/<q>" of the alphabet
BoundaryPaths ==
    [line \in {l \in Lines : StartsWith(l, DIFF_GIT)} |->
        LET q == SplitWs(line)[4] IN SubSeq(q, Len(B_PREFIX) + 1, Len(q))]

BoundaryPath(line) == BoundaryPaths[line]

\* which pattern of the configurations matches which path of the alphabet
ConfigPatterns ==
    LET lists == {cfg.include : cfg \in Configs} \cup {cfg.exclude : cfg \in Configs}
    IN  UNION {SeqToSet(Val(o)) : o \in {x \in lists : ~IsNone(x)}}

MatchTable ==
    [pattern \in ConfigPatterns, path \in {BoundaryPaths[l] : l \in DOMAIN BoundaryPaths} |->
        GitWildMatch(pattern, path)]

Matches(patterns, path) == \E k \in 1..Len(patterns) : MatchTable[patterns[k], path]

\* the path filter as the specification words it
PassesFilter(path, include, exclude) ==
    /\ IsNone(include) \/ Matches(Val(include), path)
    /\ IsNone(exclude) \/ ~Matches(Val(exclude), path)

\* the sections of the text of call c: its boundaries, the last line and
\* the hunk headers of each, and the boundaries whose file the path filter
\* drops, whose file passes it without a hunk, and whose file is kept
Sections(c) ==
    LET text == diff_text[c]
        bs == Boundaries(text)
        last == [b \in bs |-> EndBefore(bs, Len(text), b)]
        headers == [b \in bs |-> HeadersIn(text, b, last[b])]
        filtered == {b \in bs : ~PassesFilter(BoundaryPath(text[b]),
                                              include_patterns[c], exclude_patterns[c])}
        hunkless == {b \in bs \ filtered : headers[b] = {}}
    IN  [boundaries |-> bs, last |-> last, headers |-> headers,
         filtered |-> filtered, hunkless |-> hunkless,
         kept |-> (bs \ filtered) \ hunkless]

\* the boundaries whose file the path filter drops
Filtered(c) == Sections(c).filtered

\* the boundaries whose file passes the filter and has no hunk
Hunkless(c) == Sections(c).hunkless

\* the boundaries whose file passes the filter and has at least one hunk
Kept(c) == Sections(c).kept

\* a classified line as the input line it was built from
ChangeLine(change) ==
    (CASE change.type = "add" -> <<"+">>
       [] change.type = "remove" -> <<"-">>
       [] OTHER -> <<" ">>) \o change.content

\* the number after "+" in the hunk headers of the alphabet
TargetStart(header) == IF header = LINE_HUNK_1 THEN 1 ELSE 5

----------------------------------------------------------------------------
(* The claims *)

\* C1: resolver round trip.  For every returned file, every hunk of it and
\* every entry target_line -> (hunk_line, position) of the hunk's map,
\* resolving target_line against the file gives exactly that position.
C1_ResolverRoundTrip ==
    Done(1) =>
       \A f \in SeqToSet(result[1]) : \A ch \in SeqToSet(f.chunks) :
          \A t \in DOMAIN ch.hunk_line_mapping :
             Resolve(f, t) = Some(ch.hunk_line_mapping[t][2])

\* C2: the keys of a hunk's map are absolute line numbers of the new file:
\* under the header "@@ -a,b +c,d @@" the j-th context-or-added line of
\* the hunk is keyed at line c + j - 1.
C2_KeysAreAbsoluteLines ==
    \A ch \in ChunksOf(1) :
       LET at == Sorted(TargetIdx(ch))
       IN  \A j \in 1..Len(at) :
              /\ ch.changes[at[j]].ln = Some(TargetStart(ch.header) + j - 1)
              /\ (TargetStart(ch.header) + j - 1) \in DOMAIN ch.hunk_line_mapping

\* a step in which call c classifies a removed line into its current hunk
RemovedStep(c) ==
    /\ ~IsNone(current_chunk[c]) /\ ~IsNone(current_chunk[c]')
    /\ LET old == Val(current_chunk[c]).changes
           new == Val(current_chunk[c]').changes
       IN  Len(new) = Len(old) + 1 /\ new[Len(new)].type = "remove"

\* C3: in every hunk the key set of line_position_map is exactly the set of
\* target line numbers of the hunk's context and added lines, and a removed
\* line neither adds nor overwrites an entry.
C3_KeysAreContextAndAddedLines ==
    [][ /\ \A ch \in ChunksOf(1)' : DOMAIN ch.hunk_line_mapping = TargetLines(ch)
        /\ RemovedStep(1) =>
              Val(current_chunk[1]').hunk_line_mapping
                 = Val(current_chunk[1]).hunk_line_mapping ]_vars

\* a returned hunk with a removed line between two mapped lines
C3_Witness ==
    /\ Done(1)
    /\ \E f \in SeqToSet(result[1]) : \E ch \in SeqToSet(f.chunks) :
          /\ \E i \in 1..Len(ch.changes) :
                /\ ch.changes[i].type = "remove"
                /\ \E j \in TargetIdx(ch) : j < i
                /\ \E j \in TargetIdx(ch) : j > i
          /\ DOMAIN ch.hunk_line_mapping = {1, 2}

\* the place, in a hunk's changes, of the line that has target line t
IndexOfTarget(ch, t) == CHOOSE i \in TargetIdx(ch) : ch.changes[i].ln = Some(t)

\* C4: within one hunk the i-th classified line (added, removed or context)
\* has diff position i, counted from 1; two map entries with target lines
\* t1 < t2 have strictly increasing positions that differ by the number of
\* diff lines from the first to the second; after n classified lines the
\* positions 1..n are consumed.
C4_PositionsCountDiffLines ==
    /\ \A ch \in ChunksOf(1) :
          LET m == ch.hunk_line_mapping
          IN  /\ \A i \in TargetIdx(ch) :
                    /\ ch.changes[i].ln # None
                    /\ Val(ch.changes[i].ln) \in DOMAIN m
                    /\ m[Val(ch.changes[i].ln)][2] = i
              /\ \A t1, t2 \in DOMAIN m :
                    (t1 < t2 /\ t1 \in TargetLines(ch) /\ t2 \in TargetLines(ch)) =>
                       /\ m[t1][2] < m[t2][2]
                       /\ m[t2][2] - m[t1][2]
                             = Cardinality({i \in 1..Len(ch.changes) :
                                   IndexOfTarget(ch, t1) < i /\ i <= IndexOfTarget(ch, t2)})
    /\ ~IsNone(current_chunk[1]) =>
          current_diff_line[1] = Len(Val(current_chunk[1]).changes) + 1

\* scenario A: one file, one hunk of a context, an added and a removed line
C4_Witness ==
    /\ Done(1)
    /\ Len(result[1]) = 1 /\ Len(result[1][1].chunks) = 1
    /\ LET ch == result[1][1].chunks[1]
       IN  /\ [i \in 1..Len(ch.changes) |-> ch.changes[i].type]
                 = <<"context", "add", "remove">>
           /\ Cardinality(DOMAIN ch.hunk_line_mapping) = 2
    /\ current_diff_line[1] = 4

\* C5: every hunk header resets the target line counter and the diff
\* position counter to 1, whatever the previous hunk or file left in them:
\* the first classified line of every hunk has diff position 1, and a hunk
\* of a single added line has the map {1: (1, 1)}, also as a second hunk.
C5_CountersResetAtHunkHeader ==
    /\ (~IsNone(current_chunk[1]) /\ Val(current_chunk[1]).changes = <<>>) =>
          (current_hunk_line[1] = 1 /\ current_diff_line[1] = 1)
    /\ \A ch \in ChunksOf(1) :
          /\ (ch.changes # <<>> /\ ch.changes[1].type # "remove") =>
                /\ ch.changes[1].ln = Some(1)
                /\ 1 \in DOMAIN ch.hunk_line_mapping
                /\ ch.hunk_line_mapping[1] = <<1, 1>>
          /\ (Len(ch.changes) > 1 /\ ch.changes[1].type = "remove"
                 /\ ch.changes[2].type # "remove") =>
                /\ 1 \in DOMAIN ch.hunk_line_mapping
                /\ ch.hunk_line_mapping[1] = <<1, 2>>
          /\ (Len(ch.changes) = 1 /\ ch.changes[1].type = "add") =>
                ch.hunk_line_mapping = <<(<<1, 1>>)>>

\* a returned file whose second hunk is one added line, after a first hunk
\* that advanced both counters
C5_Witness ==
    /\ Done(1)
    /\ \E f \in SeqToSet(result[1]) :
          /\ Len(f.chunks) = 2
          /\ Len(f.chunks[1].changes) >= 1
          /\ Len(f.chunks[2].changes) = 1
          /\ f.chunks[2].changes[1].type = "add"
          /\ f.chunks[2].hunk_line_mapping = <<(<<1, 1>>)>>

\* the boundary that follows boundary b, 0 when b is the last
NextBoundary(text, b) ==
    LET later == {i \in Boundaries(text) : i > b}
    IN  IF later = {} THEN 0 ELSE CHOOSE i \in later : \A j \in later : i <= j

C7_OrderPreserved ==
    Done(1) =>
       LET text == diff_text[1]
           s == Sections(1)
           kept == Sorted(s.kept)
       IN  /\ Len(result[1]) = Len(kept)
           /\ \A k \in 1..Len(kept) :
                 k <= Len(result[1]) =>
                    LET f == result[1][k]
                        b == kept[k]
                        hs == Sorted(s.headers[b])
                    IN  /\ f.new_path = GitLineTable[text[b]].new_path
                        /\ Len(f.chunks) = Len(hs)
                        /\ \A m \in 1..Len(hs) :
                              m <= Len(f.chunks) =>
                                 LET ch == f.chunks[m]
                                     at == Sorted(ClassifiedIn(text, hs[m],
                                              EndBefore(s.headers[b], s.last[b], hs[m])))
                                 IN  /\ ch.header = text[hs[m]]
                                     /\ [i \in 1..Len(ch.changes) |-> ChangeLine(ch.changes[i])]
                                           = [i \in 1..Len(at) |-> text[at[i]]]

\* two returned files of different paths, the first with two different
\* hunks
C7_Witness ==
    /\ Done(1)
    /\ Len(result[1]) = 2
    /\ result[1][1].new_path # result[1][2].new_path
    /\ Len(result[1][1].chunks) = 2
    /\ result[1][1].chunks[1].header # result[1][1].chunks[2].header

\* patterns are given: the list is there and holds a pattern
Given(patterns) == ~IsNone(patterns) /\ Val(patterns) # <<>>

\* C8: with exclude patterns no returned file has a display path matching
\* one of them; with include patterns every returned file's display path
\* matches one of them; with both, both hold.
C8_ReturnedFilesPassFilter ==
    Done(1) =>
       \A f \in SeqToSet(result[1]) :
          /\ ~IsNone(display_path(f))
          /\ Given(exclude_patterns[1]) =>
                ~Matches(Val(exclude_patterns[1]), Val(display_path(f)))
          /\ Given(include_patterns[1]) =>
                Matches(Val(include_patterns[1]), Val(display_path(f)))

\* both lists given, a file with a hunk that matches both is left out and
\* another file is returned
C8_Witness ==
    /\ Done(1)
    /\ Given(include_patterns[1]) /\ Given(exclude_patterns[1])
    /\ \E b \in Boundaries(diff_text[1]) :
          /\ HeadersOf(diff_text[1], b) # {}
          /\ Matches(Val(include_patterns[1]), BoundaryPath(diff_text[1][b]))
          /\ Matches(Val(exclude_patterns[1]), BoundaryPath(diff_text[1][b]))
    /\ Len(result[1]) = 1

\* the section of boundary b is a pure deletion: "deleted file mode" in
\* its header lines, and hunks of removed lines only
PureDeletion(text, b) ==
    LET hs == HeadersOf(text, b)
    IN  /\ hs # {}
        /\ \E j \in (b + 1)..SectionEnd(text, b) :
              text[j] = LINE_DELETED /\ \A h \in hs : j < h
        /\ \E h \in hs : ClassifiedOf(text, b, h) # {}
        /\ \A h \in hs : \A i \in ClassifiedOf(text, b, h) : text[i][1] = "-"

\* C9: a file that is a pure deletion never appears in the result (the
\* k-th returned file is the file of the k-th boundary that passes the
\* filter and has a hunk).
C9_DeletedFilesNotReturned ==
    Done(1) =>
       LET kept == Sorted(Kept(1))
       IN  \A k \in 1..Len(result[1]) :
              k <= Len(kept) => ~PureDeletion(diff_text[1], kept[k])

\* C10: every returned file has at least one hunk, and a file whose
\* boundary no "@@" header follows is not returned.
C10_ReturnedFilesHaveHunks ==
    /\ \A f \in SeqToSet(result[1]) : Len(f.chunks) >= 1
    /\ Done(1) =>
          Len(result[1]) <= Cardinality({b \in Boundaries(diff_text[1]) :
                                            HeadersOf(diff_text[1], b) # {}})

\* a file without hunk before the next boundary, one without hunk at the
\* end of the text, and a returned file between them
C10_Witness ==
    /\ Done(1)
    /\ \E b \in Hunkless(1) : NextBoundary(diff_text[1], b) # 0
    /\ \E b \in Hunkless(1) : NextBoundary(diff_text[1], b) = 0
    /\ Len(result[1]) = 1

\* C11: parse_diff_text never fails.  Whatever the lines of the text, also
\* boundary lines whose paths are missing or lack the a/ or b/ prefix, the
\* call raises no error, and a text without boundary line gives no file.
C11_NeverRaises ==
    /\ pc[3] # "raised"
    /\ (Done(3) /\ Boundaries(diff_text[3]) = {}) => result[3] = <<>>

\* p and q of the boundary lines "diff --git a/<p> b/<q>" of the texts
WellFormedBoundaries ==
    [line \in {LINE_GIT_SRC, LINE_GIT_LIB, LINE_GIT_RENAME} |->
        CASE line = LINE_GIT_SRC -> [p |-> PATH_SRC, q |-> PATH_SRC]
          [] line = LINE_GIT_LIB -> [p |-> PATH_LIB, q |-> PATH_LIB]
          [] line = LINE_GIT_RENAME -> [p |-> PATH_SRC, q |-> PATH_TST]]

\* the path filter of call c lets path q pass
Passes(c, q) ==
    /\ Given(include_patterns[c]) => match_file(Val(include_patterns[c]), q)
    /\ Given(exclude_patterns[c]) => ~match_file(Val(exclude_patterns[c]), q)

\* C12: right after a boundary line "diff --git a/<p> b/<q>" the file in
\* progress has old_path = p and new_path = q, the paths without their a/
\* and b/ prefix and otherwise unchanged, when the path filter lets q pass,
\* and there is no file in progress when it does not.
C12_PathsKeptExactly ==
    LET text == diff_text[3]
    IN  (text # <<>> /\ text[Len(text)] \in DOMAIN WellFormedBoundaries) =>
           LET pq == WellFormedBoundaries[text[Len(text)]]
           IN  /\ pc[3] # "raised"
               /\ IF Passes(3, pq.q)
                  THEN /\ ~IsNone(current_file[3])
                       /\ Val(current_file[3]).old_path = Some(pq.p)
                       /\ Val(current_file[3]).new_path = Some(pq.q)
                  ELSE IsNone(current_file[3])

\* C18: a newly created file, one whose boundary line is followed by the
\* header "--- /dev/null" and a hunk, is returned when it passes the path
\* filter, and its old_path is absent.
C18_NewFileHasNoOldPath ==
    LET text == diff_text[3]
    IN  Done(3) =>
           \A b \in 1..(Len(text) - 2) :
              (/\ text[b] \in DOMAIN WellFormedBoundaries
               /\ Passes(3, WellFormedBoundaries[text[b]].q)
               /\ text[b + 1] = LINE_NEW_FILE
               /\ Prefixes[text[b + 2]].at) =>
                 \E k \in 1..Len(result[3]) :
                    /\ result[3][k].new_path = Some(WellFormedBoundaries[text[b]].q)
                    /\ result[3][k].old_path = None

OnlyRemoved(f, n) ==
    /\ \E k \in 1..Len(f.chunks) : \E i \in 1..Len(f.chunks[k].changes) :
          /\ f.chunks[k].changes[i].type = "remove"
          /\ f.chunks[k].changes[i].ln2 = Some(n)
    /\ \A k \in 1..Len(f.chunks) : \A i \in 1..Len(f.chunks[k].changes) :
          f.chunks[k].changes[i].type # "remove" => f.chunks[k].changes[i].ln # Some(n)

\* C14: resolving a line number that the hunks of the file hold only as
\* the number of a removed line finds nothing.
C14_RemovedLineNotFound ==
    LET c == 4
    IN  ~IsNone(comment[c]) =>
           LET diff_file == FindFile(result[c], Val(comment[c]).file_path)
           IN  (~IsNone(diff_file) /\ OnlyRemoved(Val(diff_file), Val(comment[c]).line_number))
                  => review_comments_payload[c] = <<>>

\* scenario E: a comment on line 2 of a file whose hunk, with its map in the
\* file, has a context line 1 and a removed line 2
C14_Witness ==
    LET c == 4
    IN  /\ ~IsNone(comment[c])
        /\ Val(comment[c]).line_number = 2
        /\ Len(result[c]) = 1
        /\ result[c][1].hunk_line_mappings # <<>>
        /\ 1 \in DOMAIN result[c][1].hunk_line_mappings[1]
        /\ OnlyRemoved(result[c][1], 2)
        /\ review_comments_payload[c] = <<>>

\* the lines of the hunk of header h, which ends at line last, up to the
\* first line that starts with none of "+", "-" and " "
BeforeMalformed(text, h, last) ==
    LET bad == (h + 1)..last \ ClassifiedIn(text, h, last)
    IN  IF bad = {} THEN ClassifiedIn(text, h, last)
        ELSE ClassifiedIn(text, h, (CHOOSE i \in bad : \A j \in bad : i <= j) - 1)

\* C17: a line inside a hunk that starts with none of "+", "-" and " " ends
\* the hunk: the lines of the returned hunk are those classified before
\* that line, and no later line is classified into the hunk.
C17_MalformedLineEndsHunk ==
    Done(1) =>
       LET text == diff_text[1]
           s == Sections(1)
           kept == Sorted(s.kept)
       IN  \A k \in 1..Len(kept) :
              k <= Len(result[1]) =>
                 LET f == result[1][k]
                     b == kept[k]
                     hs == Sorted(s.headers[b])
                 IN  \A m \in 1..Len(hs) :
                        m <= Len(f.chunks) =>
                           LET at == Sorted(BeforeMalformed(text, hs[m],
                                        EndBefore(s.headers[b], s.last[b], hs[m])))
                           IN  [i \in 1..Len(f.chunks[m].changes) |->
                                   ChangeLine(f.chunks[m].changes[i])]
                                  = [i \in 1..Len(at) |-> text[at[i]]]

\* C15: filter_files_by_patterns returns the paths of its input, in input
\* order and with duplicates kept, that match an include pattern (when
\* include patterns are given) and no exclude pattern; without patterns it
\* returns its input, and an empty input gives an empty result.
C15_FilterIsOrderedSelection ==
    ~IsNone(filter_result[5]) =>
       LET xs == filter_files[5]
           r == Val(filter_result[5])
           inc == include_patterns[5]
           exc == exclude_patterns[5]
           keep(i) ==
              /\ IsNone(inc) \/ \E k \in 1..Len(Val(inc)) : GitWildMatch(Val(inc)[k], xs[i])
              /\ IsNone(exc) \/ \A k \in 1..Len(Val(exc)) : ~GitWildMatch(Val(exc)[k], xs[i])
           idx == Sorted({i \in 1..Len(xs) : keep(i)})
       IN  /\ r = [j \in 1..Len(idx) |-> xs[idx[j]]]
           /\ (IsNone(inc) /\ IsNone(exc)) => r = xs
           /\ xs = <<>> => r = <<>>

\* include and exclude given, a path that matches both is removed and a
\* path given twice is returned twice
C15_Witness ==
    /\ ~IsNone(include_patterns[5]) /\ ~IsNone(exclude_patterns[5])
    /\ filter_files[5] = <<PATH_SRC, PATH_TST, PATH_SRC>>
    /\ GitWildMatch(Val(include_patterns[5])[1], PATH_TST)
    /\ filter_result[5] = Some(<<PATH_SRC, PATH_SRC>>)

\* C16: a text that is empty or all whitespace parses to the empty list with
\* no file and no hunk created; review_pr, when it got no diff text, returns
\* without calling the parser and without posting, and when the parse gave no
\* file it returns without posting.
C16_EmptyDiffIsNothingToReview ==
    /\ (pc[6] = "done" /\ EmptyText(diff_text[6])) =>
          /\ result[6] = <<>>
          /\ IsNone(current_file[6]) /\ IsNone(current_chunk[6])
    /\ review[6] = "no_diff_text" =>
          /\ pc[6] = "not_called" /\ diff_text[6] = <<>> /\ result[6] = <<>>
          /\ IsNone(comment[6]) /\ review_comments_payload[6] = <<>>
    /\ review[6] = "no_files" =>
          /\ result[6] = <<>>
          /\ IsNone(comment[6]) /\ review_comments_payload[6] = <<>>

\* a text of blank lines only was parsed and review_pr returned on it
C16_Witness ==
    /\ review[6] = "no_files"
    /\ Len(diff_text[6]) >= 2
    /\ EmptyText(diff_text[6])
    /\ \E i \in 1..Len(diff_text[6]) : diff_text[6][i] = LINE_BLANK

C20_InterleavedAsAlone ==
    \A c \in {7, 8} :
        LET st == AloneLoop(diff_text[c], include_patterns[c], exclude_patterns[c])
        IN  /\ pc[c] = "loop" =>
                  /\ result[c] = st.result
                  /\ current_file[c] = st.current_file
                  /\ current_chunk[c] = st.current_chunk
                  /\ current_hunk_line[c] = st.current_hunk_line
                  /\ current_diff_line[c] = st.current_diff_line
            /\ pc[c] = "done" =>
                  result[c] = ParseAlone(diff_text[c], include_patterns[c],
                                         exclude_patterns[c])

\* both invocations returned a file with one hunk of one line, from
\* different texts
C20_Witness ==
    /\ pc[7] = "done" /\ pc[8] = "done"
    /\ diff_text[7] # diff_text[8]
    /\ Len(result[7]) = 1 /\ Len(result[8]) = 1
    /\ Len(result[7][1].chunks[1].changes) = 1
    /\ Len(result[8][1].chunks[1].changes) = 1
    /\ result[7][1].chunks[1].changes[1].type = "remove"

\* the hunk and the file in progress at the return are the last of the result
Finalized(c) ==
    (~IsNone(current_file[c]) /\ ~IsNone(current_chunk[c])) =>
        /\ result[c] # <<>>
        /\ result[c][Len(result[c])] = Val(current_file[c])
        /\ LET chunks == Val(current_file[c]).chunks
           IN  chunks # <<>> /\ chunks[Len(chunks)] = Val(current_chunk[c])

RECURSIVE StrToInt(_)
StrToInt(s) ==
    IF s = <<>> THEN 0
    ELSE 10 * StrToInt(SubSeq(s, 1, Len(s) - 1))
         + (CHOOSE d \in 0..9 : Digits[d + 1] = s[Len(s)])

\* the number a classified line is shown with: the target line number of a
\* context or added line, the source line number of a removed line
EffectiveNumber(change) ==
    IF change.type = "remove" THEN Val(change.ln2) ELSE Val(change.ln)

\* C22: the rendered text of a hunk with n classified lines has n + 1 lines:
\* the header, then for each classified line in order its effective number,
\* a blank and its content.
C22_RenderedTextIsHeaderAndNumberedLines ==
    ~IsNone(diff_chunk_content[10]) =>
        LET r == Val(diff_chunk_content[10])
            ch == result[10][r.file].chunks[r.chunk]
            rendered == StrSplit(r.text, <<NL>>)
        IN  /\ Len(rendered) = Len(ch.changes) + 1
            /\ rendered[1] = ch.header
            /\ \A i \in 1..Len(ch.changes) :
                  LET line == rendered[i + 1]
                      blank == FindStr(line, <<" ">>)
                  IN  /\ blank > 1
                      /\ \A k \in 1..(blank - 1) :
                            \E d \in 1..10 : Digits[d] = line[k]
                      /\ StrToInt(SubSeq(line, 1, blank - 1))
                            = EffectiveNumber(ch.changes[i])
                      /\ SubSeq(line, blank + 1, Len(line)) = ch.changes[i].content

\* a hunk with an added line, a removed line and a context line was rendered
C22_Witness ==
    /\ ~IsNone(diff_chunk_content[10])
    /\ LET r == Val(diff_chunk_content[10])
           ch == result[10][r.file].chunks[r.chunk]
       IN  /\ Len(ch.changes) = 3
           /\ {ch.changes[i].type : i \in 1..3} = {"add", "remove", "context"}

\* C23: a step that classifies a removed line advances the diff-position
\* counter by one, leaves the target-line counter and the map of the hunk
\* unchanged, and gives the line the source line number that follows the one
\* of a removed line classified just before it.
C23_RemovedLineAdvancesSourceNumber ==
    [][ RemovedStep(10) =>
          LET old == Val(current_chunk[10])
              new == Val(current_chunk[10]')
              n == Len(old.changes)
          IN  /\ current_diff_line[10]' = current_diff_line[10] + 1
              /\ current_hunk_line[10]' = current_hunk_line[10]
              /\ new.hunk_line_mapping = old.hunk_line_mapping
              /\ (n > 0 /\ old.changes[n].type = "remove") =>
                    Val(new.changes[n + 1].ln2) = Val(old.changes[n].ln2) + 1 ]_vars

\* the step of call c takes the line `line`
Takes(c, line) == diff_text[c]' = Append(diff_text[c], line)

\* the locals of call c that hold files, hunks, lines, map entries and counters
Locals(c) == <<result[c], current_file[c], current_chunk[c],
               current_hunk_line[c], current_diff_line[c]>>

\* C24: a line starting with '+', '-', a blank or '@@' that is taken while
\* no file is current (before the first boundary line or after the boundary
\* line of a filtered-out file), and a line starting with '+', '-' or a blank
\* that is taken while the current file has no hunk yet, creates no file,
\* hunk, classified line or map entry and changes no counter; the files
\* already in the result stay as they are.
C24_LinesOutsideHunksHaveNoEffect ==
    [][ \A line \in FrameLines :
          (/\ Takes(11, line)
           /\ ~Prefixes[line].git
           /\ \/ /\ IsNone(current_file[11])
                 /\ Prefixes[line].at \/ Prefixes[line].plus \/ Prefixes[line].minus
                    \/ Prefixes[line].space
              \/ /\ IsNone(current_chunk[11])
                 /\ ~Prefixes[line].at
                 /\ Prefixes[line].plus \/ Prefixes[line].minus \/ Prefixes[line].space)
          => Locals(11)' = Locals(11) ]_vars

\* a file was finalized, the boundary line of a filtered-out file followed,
\* and an added line after it was taken: the finalized file has no line
C24_Witness ==
    /\ diff_text[11] = <<LINE_GIT_SRC, LINE_HUNK_5, LINE_GIT_TST, LINE_ADD>>
    /\ ~IsNone(exclude_patterns[11])
    /\ IsNone(current_file[11])
    /\ Len(result[11]) = 1
    /\ result[11][1].chunks[1].changes = <<>>

\* the position the scan of post_review_comments finds for a comment on the
\* files of call c, None when its file or its line does not resolve
ResolveComment(c, cm) ==
    LET diff_file == FindFile(result[c], cm.file_path)
    IN  IF IsNone(diff_file) THEN None ELSE Resolve(Val(diff_file), cm.line_number)

\* the payload entries of the comments cs that resolve, in the order of cs
RECURSIVE Resolved(_, _)
Resolved(c, cs) ==
    IF cs = <<>> THEN <<>>
    ELSE LET cm == cs[Len(cs)]
             before == Resolved(c, SubSeq(cs, 1, Len(cs) - 1))
         IN  IF IsNone(ResolveComment(c, cm)) THEN before
             ELSE Append(before, [path |-> cm.file_path,
                                  line |-> Val(ResolveComment(c, cm))])

\* C25: the payload holds, in the order of the input comments, one entry for
\* each comment that resolves and none for the others; every such comment is
\* made on the new path of a parsed file and its line number is a key of the
\* map of one of that file's hunks, which stores the position the entry
\* carries.
C25_PayloadHoldsResolvedCommentsInOrder ==
    /\ review[12] # "diff_files_set" => review_comments_payload[12] = <<>>
    /\ review[12] = "diff_files_set" =>
          /\ review_comments_payload[12] = Resolved(12, comments[12])
          /\ \A i \in 1..Len(comments[12]) :
                LET cm == comments[12][i]
                    p == ResolveComment(12, cm)
                IN  ~IsNone(p) =>
                      \E k \in 1..Len(result[12]) :
                        /\ result[12][k].new_path = Some(cm.file_path)
                        /\ \E j \in 1..Len(result[12][k].chunks) :
                              LET m == result[12][k].chunks[j].hunk_line_mapping
                              IN  /\ cm.line_number \in DOMAIN m
                                  /\ m[cm.line_number][2] = Val(p)

\* of two comments the first did not resolve and the second was posted at a
\* position other than its line number
C25_Witness ==
    /\ review[12] = "diff_files_set"
    /\ Len(comments[12]) = 2
    /\ IsNone(ResolveComment(12, comments[12][1]))
    /\ comments[12][1].file_path = PATH_SRC
    /\ Len(review_comments_payload[12]) = 1
    /\ review_comments_payload[12][1].line # comments[12][2].line_number

\* C26: in every returned file hunk_line_mappings has one entry for each
\* hunk, the i-th being the map of the i-th hunk, whether a boundary line or
\* the end of the text finalized the file.
C26_FileMapsMatchHunks ==
    Done(10) =>
       \A f \in SeqToSet(result[10]) :
          /\ Len(f.hunk_line_mappings) = Len(f.chunks)
          /\ \A i \in 1..Len(f.chunks) :
                i <= Len(f.hunk_line_mappings) =>
                   f.hunk_line_mappings[i] = f.chunks[i].hunk_line_mapping

\* the number of removed lines among the first n classified lines of a hunk
RemovedBefore(ch, n) ==
    Cardinality({i \in 1..n : ch.changes[i].type = "remove"})

\* C27: the keys of a hunk's map are 1..k, k being the number of its context
\* and added lines; the entry of key t is (t, p), where p - t is the number
\* of removed lines that precede the t-th context or added line in the hunk.
C27_KeysAreHunkRelative ==
    \A ch \in ChunksOf(10) :
       LET at == Sorted(TargetIdx(ch))
           m == ch.hunk_line_mapping
       IN  /\ DOMAIN m = 1..Len(at)
           /\ \A t \in DOMAIN m :
                 /\ m[t][1] = t
                 /\ m[t][2] >= t
                 /\ t <= Len(at) => m[t][2] - t = RemovedBefore(ch, at[t])

\* a returned hunk whose second key is stored one position beyond it
C27_Witness ==
    /\ Done(10)
    /\ \E f \in SeqToSet(result[10]) : \E ch \in SeqToSet(f.chunks) :
          /\ DOMAIN ch.hunk_line_mapping = {1, 2}
          /\ ch.hunk_line_mapping[1] = <<1, 1>>
          /\ ch.hunk_line_mapping[2] = <<2, 3>>

\* the number of hunks in the hunk lists of the files fs
RECURSIVE HunksIn(_)
HunksIn(fs) ==
    IF fs = <<>> THEN 0 ELSE Len(fs[1].chunks) + HunksIn(Tail(fs))

\* the number of hunks call c holds: those of the result and, while the loop
\* runs, those of the current file and the hunk in progress
HunksHeld(c) ==
    HunksIn(result[c])
    + (IF pc[c] = "loop" /\ ~IsNone(current_file[c])
       THEN Len(Val(current_file[c]).chunks) ELSE 0)
    + (IF pc[c] = "loop" /\ ~IsNone(current_chunk[c]) THEN 1 ELSE 0)

\* the step of call c takes a '@@' line while a file is current
StartsHunk(c) ==
    /\ ~IsNone(current_file[c])
    /\ \E line \in LinesOf(c) :
          Takes(c, line) /\ Prefixes[line].at /\ ~Prefixes[line].git

\* C28: a step that starts a hunk adds one hunk to those the call holds and
\* no other step adds or removes one; a step leaves the result as it is or
\* appends to it one file, the current one, with its hunks followed by the
\* hunk in progress; the files already in the result never change.
C28_HunksAndFilesAppendedOnce ==
    [][ /\ HunksHeld(11)' = HunksHeld(11) + (IF StartsHunk(11) THEN 1 ELSE 0)
        /\ \/ result[11]' = result[11]
           \/ /\ ~IsNone(current_file[11]) /\ ~IsNone(current_chunk[11])
              /\ Len(result[11]') = Len(result[11]) + 1
              /\ SubSeq(result[11]', 1, Len(result[11])) = result[11]
              /\ result[11]'[Len(result[11]')].chunks
                    = Append(Val(current_file[11]).chunks, Val(current_chunk[11])) ]_vars

\* a file with two hunks was returned after a second boundary line
C28_Witness ==
    /\ Done(11)
    /\ Len(diff_text[11]) = 4
    /\ Prefixes[diff_text[11][4]].git
    /\ Len(result[11]) = 1
    /\ Len(result[11][1].chunks) = 2

\* C29: filter_files_by_patterns returns for an empty include list what it
\* returns for an absent one, and for an empty exclude list what it returns
\* for an absent one; with an empty include list and no effective exclude
\* list it returns every path.
C29_EmptyListIsAbsent ==
    ~IsNone(filter_result[13]) =>
       LET xs == filter_files[13]
           r == Val(filter_result[13])
           inc == include_patterns[13]
           exc == exclude_patterns[13]
       IN  /\ inc = Some(<<>>) => r = filter_files_by_patterns(xs, None, exc)
           /\ exc = Some(<<>>) => r = filter_files_by_patterns(xs, inc, None)
           /\ (inc = Some(<<>>) /\ exc \in {None, Some(<<>>)}) => r = xs

\* a call with an empty include list and an exclude pattern returned some of
\* its paths
C29_Witness ==
    /\ include_patterns[13] = Some(<<>>)
    /\ exclude_patterns[13] = Some(<<PAT_EXCLUDE_TST>>)
    /\ filter_files[13] = <<PATH_SRC, PATH_TST, PATH_LIB>>
    /\ filter_result[13] = Some(<<PATH_SRC, PATH_LIB>>)

\* C30: a line taken inside a hunk that starts with none of 'diff --git',
\* '@@', '+', '-' and a blank leaves the hunk (its classified lines, its map
\* and its text), the current file, the result and both counters unchanged.
C30_UnrecognisedLineIsSkipped ==
    [][ \A line \in FrameLines :
          (/\ Takes(11, line)
           /\ ~IsNone(current_chunk[11])
           /\ ~Prefixes[line].git /\ ~Prefixes[line].at /\ ~Prefixes[line].plus
           /\ ~Prefixes[line].minus /\ ~Prefixes[line].space)
          => /\ Locals(11)' = Locals(11)
             /\ content_for_llm(Val(current_chunk[11])')
                   = content_for_llm(Val(current_chunk[11])) ]_vars

\* an empty line and the no-newline marker stood in a hunk before its only
\* added line, which got position 1
C30_Witness ==
    /\ Done(11)
    /\ Len(diff_text[11]) = 4
    /\ diff_text[11][3] \in {LINE_EMPTY, LINE_NO_NEWLINE}
    /\ diff_text[11][4] = LINE_ADD
    /\ Len(result[11]) = 1
    /\ result[11][1].chunks[1].hunk_line_mapping = (1 :> <<1, 1>>)

====
